---- MODULE Spec2Model ----
(***************************************************************************)
(* predict_image (src/predict.py): load the model artifact 'model.h5',     *)
(* load and resize the image, add the batch dimension, run inference and   *)
(* decode result[0][0] == 1 into 'Normal' / 'Covid'.                       *)
(*                                                                         *)
(* Several invocations may be in flight at once; each has its own locals.  *)
(* The file system and the interpreter's module cache are the only state   *)
(* the invocations share.  Exceptions are not caught anywhere in the       *)
(* function, so a raising statement ends the invocation.                   *)
(*                                                                         *)
(* Numbers produced by the model are fixed-point, in units of 10^-6:       *)
(* the literal 1 of line 17 is One, and 0.999999 is One - 1.               *)
(***************************************************************************)
EXTENDS Integers, Sequences, FiniteSets, TLC

\* ------------------------------------------------------------------ bounds
NCalls == 3          \* invocations of predict_image (concurrent or in sequence)
MaxActive == 2       \* invocations in flight at the same time
MaxWrites == 1       \* changes other processes make to the files

Calls == 1..NCalls

\* --------------------------------------------------------- program constants
One == 1000000       \* the literal 1 of `result[0][0] == 1`
TargetSide == 64     \* target_size=(64, 64)
RGBChannels == 3     \* load_img's default color_mode='rgb'
BatchAxisLen == 1    \* np.expand_dims(img, axis=0) inserts an axis of length 1

MODEL_PATH == "model.h5"

\* --------------------------------------------------------------------- state
VARIABLES
    fs,            \* path -> content of the file
    sys_modules,   \* the interpreter's cache of imported modules
    emptyRaises,   \* the numpy build: bool() of an empty array raises (either
                   \* build is possible where a network can output one)
    writes,        \* changes made to the files by other processes so far
    pc,            \* per invocation: the statement it is about to execute
    image_path,    \* per invocation: the argument
    model,         \* per invocation: local `model`
    img,           \* per invocation: local `img`
    result,        \* per invocation: local `result`
    prediction,    \* per invocation: local `prediction`, the value returned
    exc,           \* per invocation: the exception that ended it
    opened         \* per invocation: the files it read, in order, with what they held

vars == <<fs, sys_modules, emptyRaises, writes, pc, image_path, model, img,
          result, prediction, exc, opened>>

\* -------------------------------------------------------------- Python values
None == [kind |-> "None"]

\* ndarray: a shape and the row-major data
Array(shape, data) == [kind |-> "ndarray", shape |-> shape, data |-> data]

\* the outcome of evaluating an expression: a value, or a raised exception
Ok(v) == [exc |-> "none", val |-> v]
Raise(e) == [exc |-> e, val |-> None]

RECURSIVE Prod(_)
Prod(s) == IF s = <<>> THEN 1 ELSE Head(s) * Prod(Tail(s))

\* ---------------------------------------------------------------- the files
NoFile == [kind |-> "absent"]
Junk == [kind |-> "junk"]
H5(inShape, net) == [kind |-> "h5", inShape |-> inShape, net |-> net]
ImageFile(w, h, mode, pix) ==
    [kind |-> "image", width |-> w, height |-> h, mode |-> mode, pix |-> pix]

\* ------------------------------------------------ the libraries' operations
\* What a trained network computes from the pixels of a 64x64 RGB image.
\* The artifact is opaque: the networks below are the outputs a network can
\* give for three different pictures "p", "q" and "r".
Infer(net, pix) ==
    CASE net = "exact" ->
             CASE pix = "p" -> Array(<<1, 1>>, <<One>>)
               [] pix = "q" -> Array(<<1, 1>>, <<0>>)
               [] OTHER     -> Array(<<1, 1>>, <<One - 1>>)
      [] net = "soft" ->
             CASE pix = "p" -> Array(<<1, 1>>, <<One \div 2>>)
               [] pix = "q" -> Array(<<1, 1>>, <<2 * One>>)
               [] OTHER     -> Array(<<1, 1>>, <<-One>>)
      [] net = "flat" ->
             CASE pix = "p" -> Array(<<1>>, <<One>>)
               [] pix = "q" -> Array(<<0>>, <<>>)
               [] OTHER     -> Array(<<1, 0>>, <<>>)
      [] net = "wide" ->
             CASE pix = "p" -> Array(<<1, 2>>, <<One, 0>>)
               [] pix = "q" -> Array(<<1, 2>>, <<0, One>>)
               [] OTHER     -> Array(<<1, 1, 1>>, <<One>>)
      [] OTHER ->
             CASE pix = "p" -> Array(<<1, 1, 2>>, <<One, One>>)
               [] pix = "q" -> Array(<<1, 1, 0>>, <<>>)
               [] OTHER     -> Array(<<1, 1, 1>>, <<0>>)

\* load_model with a handle kept from an earlier load: the file is not
\* deserialised again while any invocation's handle is around
load_model_cached(file) ==
    IF \E u \in Calls : model[u].kind = "Model"
    THEN Ok(model[CHOOSE u \in Calls : model[u].kind = "Model"])
    ELSE CASE file.kind = "h5" ->
                  Ok([kind |-> "Model", inShape |-> file.inShape, net |-> file.net])
           [] file.kind = "absent" -> Raise("ModelFileNotFound")
           [] OTHER -> Raise("ModelFormatError")

\* keras.models.load_model(path): deserialise the file's content
load_model(file) ==
    CASE file.kind = "h5" ->
             Ok([kind |-> "Model", inShape |-> file.inShape, net |-> file.net])
      [] file.kind = "absent" -> Raise("ModelFileNotFound")
      [] OTHER -> Raise("ModelFormatError")

\* load_img without target_size: the image keeps its own width and height
load_img_unresized(file) ==
    CASE file.kind = "image" ->
             Ok([kind |-> "PIL", width |-> file.width, height |-> file.height,
                 mode |-> "RGB", pix |-> file.pix])
      [] file.kind = "absent" -> Raise("FileNotFoundError")
      [] OTHER -> Raise("UnidentifiedImageError")

\* image.load_img(path, target_size=(64, 64)): open, convert to RGB (the
\* default color_mode), resize to the target size
load_img(file) ==
    CASE file.kind = "image" ->
             Ok([kind |-> "PIL", width |-> TargetSide, height |-> TargetSide,
                 mode |-> "RGB", pix |-> file.pix])
      [] file.kind = "absent" -> Raise("FileNotFoundError")
      [] OTHER -> Raise("UnidentifiedImageError")

ChannelsOf(mode) ==
    CASE mode = "RGB" -> RGBChannels
      [] mode = "RGBA" -> RGBChannels + 1
      [] OTHER -> 1

\* image.img_to_array(img): height x width x channels, channels last
img_to_array(pil) ==
    Array(<<pil.height, pil.width, ChannelsOf(pil.mode)>>, pil.pix)

\* np.expand_dims(img, axis=0)
expand_dims(a) == Array(<<BatchAxisLen>> \o a.shape, a.data)

\* model.predict(img): the input's shape after the batch axis must be the
\* shape the network was built for
predict(m, x) ==
    IF Tail(x.shape) # m.inShape
    THEN Raise("ShapeMismatch")
    ELSE Ok(Infer(m.net, x.data))

\* a[0] that never fails: a missing element reads as 0
getitem0_lenient(a) ==
    IF a.shape = <<>> \/ Head(a.shape) = 0
    THEN Ok(Array(<<>>, <<0>>))
    ELSE Ok(Array(Tail(a.shape), SubSeq(a.data, 1, Prod(Tail(a.shape)))))

\* a[0] of an ndarray
getitem0(a) ==
    IF a.shape = <<>> \/ Head(a.shape) = 0
    THEN Raise("IndexError")
    ELSE Ok(Array(Tail(a.shape), SubSeq(a.data, 1, Prod(Tail(a.shape)))))

\* a thresholded test, v >= 0.5, instead of v == 1
AtLeastHalf(v) == 2 * v >= One

\* v == 1 on one number
EqualsOne(v) == v = One

\* bool(a == 1): element-wise comparison, then the truth value of the
\* boolean array.  An array of several elements has no truth value; the
\* truth value of an empty one is False or an error, depending on the
\* numpy build (strict).
TruthOfEq1(a, strict) ==
    CASE Len(a.data) = 1 -> Ok(EqualsOne(a.data[1]))
      [] Len(a.data) = 0 -> IF strict THEN Raise("ValueError") ELSE Ok(FALSE)
      [] OTHER -> Raise("ValueError")

\* a third label for the else branch
LabelOther(truth) == IF truth THEN "Normal" ELSE "Unknown"

\* a label kept in a module-level variable: once 'Normal', always 'Normal'
LabelSticky(truth) ==
    IF truth \/ \E u \in Calls : prediction[u] = [kind |-> "str", s |-> "Normal"]
    THEN "Normal" ELSE "Covid"

\* lines 17-20: the label for the truth value of the test
Label(truth) == IF truth THEN "Normal" ELSE "Covid"

\* lines 17-20: result[0][0] == 1 selects the label
Decode(res, strict) ==
    LET r0 == getitem0(res) IN
    IF r0.exc # "none" THEN Raise(r0.exc)
    ELSE LET r00 == getitem0(r0.val) IN
         IF r00.exc # "none" THEN Raise(r00.exc)
         ELSE LET b == TruthOfEq1(r00.val, strict) IN
              IF b.exc # "none" THEN Raise(b.exc)
              ELSE [exc |-> "none", val |-> Label(b.val)]

\* ------------------------------------------------------------------- inputs
Nets == {"exact", "soft", "flat", "wide", "deep"}
TrainedShape == <<TargetSide, TargetSide, RGBChannels>>
OtherShape == <<2 * TargetSide, 2 * TargetSide, RGBChannels>>

\* what the file at MODEL_PATH may hold
ModelFiles ==
    {NoFile, Junk} \cup {H5(TrainedShape, n) : n \in Nets}
                   \cup {H5(OtherShape, "exact")}

\* what the file at the first image path may hold
ImageFiles ==
    {NoFile, Junk, ImageFile(128, 128, "RGB", "p"), ImageFile(64, 48, "RGBA", "r")}

\* the image_path arguments: a second image is always there
IMAGE_PATH == "a.png"
OTHER_IMAGE_PATH == "b.png"
Args == {IMAGE_PATH, OTHER_IMAGE_PATH}
Paths == {MODEL_PATH} \cup Args

ImportedModules == {"keras.models", "keras.preprocessing.image", "numpy"}

\* ------------------------------------------------------------- invocations
Str(s) == [kind |-> "str", s |-> s]

\* the content of the file at path p
ReadFile(p) == fs[p]

\* a read that opens the file for writing and truncates it
AfterTruncatingOpen(files, p) == [files EXCEPT ![p] = Junk]

\* the file system after a library call has read the file at p
AfterRead(files, p) == files

\* the image is loaded and preprocessed before the model is loaded
StmtAfterImageFirst(stmt) ==
    CASE stmt = "import"       -> "load_img"
      [] stmt = "load_img"     -> "img_to_array"
      [] stmt = "img_to_array" -> "expand_dims"
      [] stmt = "expand_dims"  -> "load_model"
      [] stmt = "load_model"   -> "predict"
      [] stmt = "predict"      -> "decode"
      [] OTHER                 -> "returned"

\* the statements of the function body in program order
StmtAfter(stmt) ==
    CASE stmt = "import"       -> "load_model"
      [] stmt = "load_model"   -> "load_img"
      [] stmt = "load_img"     -> "img_to_array"
      [] stmt = "img_to_array" -> "expand_dims"
      [] stmt = "expand_dims"  -> "predict"
      [] stmt = "predict"      -> "decode"
      [] OTHER                 -> "returned"

\* a failing statement is executed again
UnwindRetry(now, out) == IF out.exc # "none" THEN now ELSE StmtAfter(now)

\* where control goes after statement `now` evaluated to `out`: no exception
\* is caught, so a raised one ends the invocation
Unwind(now, out) == IF out.exc # "none" THEN "raised" ELSE StmtAfter(now)

\* `result` kept in one module-level variable shared by all invocations
ResultShared(t) == 1

\* the frame that holds invocation t's local `result`
ResultOwner(t) == t

Init ==
    /\ fs \in [Paths -> ModelFiles \cup ImageFiles \cup {ImageFile(30, 30, "L", "q")}]
    /\ fs[MODEL_PATH] \in ModelFiles
    /\ fs[IMAGE_PATH] \in ImageFiles
    /\ fs[OTHER_IMAGE_PATH] = ImageFile(30, 30, "L", "q")
    /\ sys_modules = {}
    /\ emptyRaises \in (IF fs[MODEL_PATH] = H5(TrainedShape, "deep")
                        THEN BOOLEAN ELSE {FALSE})
    /\ writes = 0
    /\ pc = [t \in Calls |-> "idle"]
    /\ image_path = [t \in Calls |-> None]
    /\ model = [t \in Calls |-> None]
    /\ img = [t \in Calls |-> None]
    /\ result = [t \in Calls |-> None]
    /\ prediction = [t \in Calls |-> None]
    /\ exc = [t \in Calls |-> "none"]
    /\ opened = [t \in Calls |-> <<>>]

InFlight == {u \in Calls : pc[u] \notin {"idle", "returned", "raised"}}

\* line 2: predict_image(p) is invoked (invocations are numbered in the
\* order they start)
Call(t, p) ==
    /\ pc[t] = "idle"
    /\ IF t = 1 THEN TRUE ELSE pc[t - 1] # "idle"
    /\ Cardinality(InFlight) < MaxActive
    /\ pc' = [pc EXCEPT ![t] = "import"]
    /\ image_path' = [image_path EXCEPT ![t] = Str(p)]
    /\ UNCHANGED <<fs, sys_modules, emptyRaises, writes, model, img, result,
                   prediction, exc, opened>>

\* lines 3-5: the function-level imports; a module not yet imported is
\* loaded into the interpreter's module cache
Import(t) ==
    /\ pc[t] = "import"
    /\ sys_modules' = sys_modules \cup ImportedModules
    /\ pc' = [pc EXCEPT ![t] = StmtAfter("import")]
    /\ UNCHANGED <<fs, emptyRaises, writes, image_path, model, img, result,
                   prediction, exc, opened>>

\* line 8: model = load_model('model.h5')
LoadModel(t) ==
    /\ pc[t] = "load_model"
    /\ LET file == ReadFile(MODEL_PATH)
           out == load_model(file) IN
       /\ opened' = [opened EXCEPT ![t] =
              Append(@, [by |-> "load_model", path |-> MODEL_PATH, held |-> file])]
       /\ model' = [model EXCEPT ![t] = IF out.exc = "none" THEN out.val ELSE @]
       /\ exc' = [exc EXCEPT ![t] = out.exc]
       /\ pc' = [pc EXCEPT ![t] = Unwind("load_model", out)]
    /\ fs' = AfterRead(fs, MODEL_PATH)
    /\ UNCHANGED <<sys_modules, emptyRaises, writes, image_path, img, result,
                   prediction>>

\* line 11: img = image.load_img(image_path, target_size=(64, 64))
LoadImg(t) ==
    /\ pc[t] = "load_img"
    /\ LET file == ReadFile(image_path[t].s)
           out == load_img(file) IN
       /\ opened' = [opened EXCEPT ![t] =
              Append(@, [by |-> "load_img", path |-> image_path[t].s, held |-> file])]
       /\ img' = [img EXCEPT ![t] = IF out.exc = "none" THEN out.val ELSE @]
       /\ exc' = [exc EXCEPT ![t] = out.exc]
       /\ pc' = [pc EXCEPT ![t] = Unwind("load_img", out)]
    /\ fs' = AfterRead(fs, image_path[t].s)
    /\ UNCHANGED <<sys_modules, emptyRaises, writes, image_path, model, result,
                   prediction>>

\* line 12: img = image.img_to_array(img)
ImgToArray(t) ==
    /\ pc[t] = "img_to_array"
    /\ img' = [img EXCEPT ![t] = img_to_array(@)]
    /\ pc' = [pc EXCEPT ![t] = StmtAfter("img_to_array")]
    /\ UNCHANGED <<fs, sys_modules, emptyRaises, writes, image_path, model,
                   result, prediction, exc, opened>>

\* line 13: img = np.expand_dims(img, axis=0)
ExpandDims(t) ==
    /\ pc[t] = "expand_dims"
    /\ img' = [img EXCEPT ![t] = expand_dims(@)]
    /\ pc' = [pc EXCEPT ![t] = StmtAfter("expand_dims")]
    /\ UNCHANGED <<fs, sys_modules, emptyRaises, writes, image_path, model,
                   result, prediction, exc, opened>>

\* line 16: result = model.predict(img)
Predict(t) ==
    /\ pc[t] = "predict"
    /\ LET out == predict(model[t], img[t]) IN
       /\ result' = [result EXCEPT ![ResultOwner(t)] =
              IF out.exc = "none" THEN out.val ELSE @]
       /\ exc' = [exc EXCEPT ![t] = out.exc]
       /\ pc' = [pc EXCEPT ![t] = Unwind("predict", out)]
    /\ UNCHANGED <<fs, sys_modules, emptyRaises, writes, image_path, model, img,
                   prediction, opened>>

\* lines 17-22: the if/else on result[0][0] == 1, and the return
DecodeReturn(t) ==
    /\ pc[t] = "decode"
    /\ LET out == Decode(result[ResultOwner(t)], emptyRaises) IN
       /\ prediction' = [prediction EXCEPT ![t] =
              IF out.exc = "none" THEN Str(out.val) ELSE @]
       /\ exc' = [exc EXCEPT ![t] = out.exc]
       /\ pc' = [pc EXCEPT ![t] = Unwind("decode", out)]
    /\ UNCHANGED <<fs, sys_modules, emptyRaises, writes, image_path, model, img,
                   result, opened>>

\* another process replaces, creates or removes a file
EnvWrite(p, c) ==
    /\ writes < MaxWrites
    /\ c # fs[p]
    /\ fs' = [fs EXCEPT ![p] = c]
    /\ writes' = writes + 1
    /\ UNCHANGED <<sys_modules, emptyRaises, pc, image_path, model, img, result,
                   prediction, exc, opened>>

Step(t) ==
    \/ Import(t)
    \/ LoadModel(t)
    \/ LoadImg(t)
    \/ ImgToArray(t)
    \/ ExpandDims(t)
    \/ Predict(t)
    \/ DecodeReturn(t)

Next ==
    \/ \E t \in Calls, p \in Args : Call(t, p)
    \/ \E t \in Calls : Step(t)

Spec == Init /\ [][Next]_vars

\* The same invocations while another process replaces, removes or restores
\* the model artifact, starting from a trained artifact and a decodable image.
EnvModelFiles ==
    {NoFile, H5(TrainedShape, "exact"), H5(TrainedShape, "soft")}

InitEnv ==
    /\ Init
    /\ fs[MODEL_PATH] = H5(TrainedShape, "exact")
    /\ fs[IMAGE_PATH] = ImageFile(128, 128, "RGB", "p")

NextEnv ==
    \/ \E t \in Calls : Call(t, IMAGE_PATH)
    \/ \E t \in Calls : Step(t)
    \/ \E c \in EnvModelFiles : EnvWrite(MODEL_PATH, c)

SpecEnv == InitEnv /\ [][NextEnv]_vars

\* --------------------------------------------------------------- properties
Finished(t) == pc[t] \in {"returned", "raised"}
Normal == Str("Normal")
Covid == Str("Covid")

\* C1: every invocation that returns, returns "Normal" or "Covid" and nothing
\* else, whatever the network put at [0][0].
C1_OnlyTwoLabels ==
    \A t \in Calls :
        /\ pc[t] = "returned" => prediction[t] \in {Normal, Covid}
        /\ pc[t] # "returned" => prediction[t] = None

\* an invocation returned a label for an output that is neither 0 nor 1
C1_Witness ==
    \E t \in Calls :
        /\ pc[t] = "returned"
        /\ result[t].kind = "ndarray"
        /\ result[t].data = <<2 * One>>

\* C2: with a number at [0][0] of a two-dimensional output, the label is
\* "Normal" exactly when that number is 1 (1000000 in fixed point); any other
\* number, 0.999999 and 0.5 included, gives "Covid"; and decoding such an
\* output does not fail.
C2_ExactEquality ==
    \A t \in Calls :
        (/\ result[t].kind = "ndarray"
         /\ Len(result[t].shape) = 2
         /\ result[t].shape[1] >= 1
         /\ result[t].shape[2] >= 1)
        => /\ pc[t] # "raised"
           /\ pc[t] = "returned" =>
                  prediction[t] = IF result[t].data[1] = 1000000 THEN Normal ELSE Covid

\* an invocation returned "Covid" for the output [[0.999999]]
C2_Witness ==
    \E t \in Calls :
        /\ pc[t] = "returned"
        /\ result[t].kind = "ndarray"
        /\ result[t].shape = <<1, 1>>
        /\ result[t].data = <<999999>>
        /\ prediction[t] = Covid

\* C3: a failing statement ends the invocation in that error: no label, no
\* retry, no later statement.  A missing artifact fails the load, a missing
\* or undecodable image fails load_img, a network built for another input
\* shape fails inference.
C3_ErrorsPropagate ==
    \A t \in Calls :
        /\ exc[t] # "none" <=> pc[t] = "raised"
        /\ pc[t] = "raised" => prediction[t] = None
        /\ Len(opened[t]) <= 2
        /\ exc[t] \in {"ModelFileNotFound", "ModelFormatError"} =>
               /\ model[t] = None /\ img[t] = None /\ result[t] = None
               /\ Len(opened[t]) = 1
        /\ exc[t] \in {"FileNotFoundError", "UnidentifiedImageError"} =>
               /\ img[t] = None /\ result[t] = None
               /\ Len(opened[t]) = 2
        /\ exc[t] = "ShapeMismatch" => result[t] = None
        /\ (Finished(t) /\ fs[MODEL_PATH].kind = "absent") =>
               exc[t] = "ModelFileNotFound"
        /\ (Finished(t) /\ fs[MODEL_PATH].kind = "h5"
                        /\ fs[image_path[t].s].kind = "absent") =>
               exc[t] = "FileNotFoundError"
        /\ (Finished(t) /\ fs[MODEL_PATH].kind = "h5"
                        /\ fs[image_path[t].s].kind = "junk") =>
               exc[t] = "UnidentifiedImageError"
        /\ (Finished(t) /\ fs[MODEL_PATH].kind = "h5"
                        /\ fs[image_path[t].s].kind = "image") =>
               (exc[t] = "ShapeMismatch" <=> fs[MODEL_PATH].inShape # <<64, 64, 3>>)

\* one invocation failed on a missing image after loading the model, another
\* failed in inference on a shape mismatch
C3_Witness ==
    \E t, u \in Calls :
        /\ pc[t] = "raised" /\ exc[t] = "FileNotFoundError"
        /\ model[t].kind = "Model"
        /\ pc[u] = "raised" /\ exc[u] = "ShapeMismatch"

\* C9 as stated: after a successful inference, every output other than a 1
\* at [0][0] -- a 1-dimensional or empty output included -- returns "Covid"
\* without an error.
C9_AnyOtherOutputIsCovid ==
    \A t \in Calls :
        (/\ result[t].kind = "ndarray"
         /\ Finished(t)
         /\ ~(/\ Len(result[t].shape) >= 2
              /\ result[t].shape[1] >= 1
              /\ result[t].shape[2] >= 1
              /\ Len(result[t].data) >= 1
              /\ result[t].data[1] = 1000000))
        => pc[t] = "returned" /\ prediction[t] = Covid

\* C9 amended: a two-dimensional output with a number other than 1 at [0][0]
\* returns "Covid"; an output with no [0][0] element (1-dimensional, or with
\* no rows or no columns) raises IndexError and returns no label.
C9_NoElementRaises ==
    \A t \in Calls :
        (result[t].kind = "ndarray" /\ Finished(t)) =>
            /\ (/\ Len(result[t].shape) = 2
                /\ result[t].shape[1] >= 1
                /\ result[t].shape[2] >= 1
                /\ result[t].data[1] # 1000000)
               => pc[t] = "returned" /\ prediction[t] = Covid
            /\ (\/ Len(result[t].shape) < 2
                \/ result[t].shape[1] = 0
                \/ result[t].shape[2] = 0)
               => pc[t] = "raised" /\ exc[t] = "IndexError" /\ prediction[t] = None

\* indexing the 1-dimensional output [1.0] at [0][0] raised IndexError
C9_Witness ==
    \E t \in Calls :
        /\ pc[t] = "raised"
        /\ exc[t] = "IndexError"
        /\ result[t].kind = "ndarray"
        /\ result[t].shape = <<1>>
        /\ result[t].data = <<1000000>>

\* the whole function applied to the files as they are, with nothing else
\* running: the outcome (label or exception) of predict_image(p)
RunAlone(p) ==
    LET m == load_model(fs[MODEL_PATH]) IN
    IF m.exc # "none" THEN Raise(m.exc)
    ELSE LET i == load_img(fs[p]) IN
         IF i.exc # "none" THEN Raise(i.exc)
         ELSE LET r == predict(m.val, expand_dims(img_to_array(i.val))) IN
              IF r.exc # "none" THEN Raise(r.exc)
              ELSE Decode(r.val, emptyRaises)

\* C4: with the artifact and the images fixed, any two finished invocations
\* with the same image_path ended the same way (same label, or same error),
\* whatever other invocations ran before or between them.
C4_SameInputSameOutcome ==
    \A t, u \in Calls :
        (Finished(t) /\ Finished(u) /\ image_path[t] = image_path[u]) =>
            /\ pc[t] = pc[u]
            /\ prediction[t] = prediction[u]
            /\ exc[t] = exc[u]

\* two invocations on one image returned the same label although a third,
\* on the other image, returned the other label
C4_Witness ==
    \E t, u, v \in Calls :
        /\ t # u
        /\ pc[t] = "returned" /\ pc[u] = "returned" /\ pc[v] = "returned"
        /\ image_path[t] = image_path[u]
        /\ image_path[v] # image_path[t]
        /\ prediction[t] = Covid
        /\ prediction[v] = Normal

\* C5: every invocation deserialises 'model.h5' itself before anything else
\* it reads, and the handle it uses is the one made from what the file held
\* at that moment: a replaced artifact decides the label of the next
\* invocation, a removed one fails it.
C5_FreshLoadPerCall ==
    \A t \in Calls :
        /\ pc[t] \notin {"idle", "import", "load_model"} =>
               /\ Len(opened[t]) >= 1
               /\ opened[t][1].by = "load_model"
               /\ opened[t][1].path = "model.h5"
        /\ model[t].kind = "Model" =>
               /\ opened[t][1].held.kind = "h5"
               /\ model[t].net = opened[t][1].held.net
               /\ model[t].inShape = opened[t][1].held.inShape
        /\ (Len(opened[t]) >= 1 /\ opened[t][1].held.kind = "absent") =>
               /\ model[t] = None
               /\ pc[t] = "raised" /\ exc[t] = "ModelFileNotFound"
        /\ pc[t] = "returned" =>
               prediction[t] = IF opened[t][1].held.net = "exact" THEN Normal ELSE Covid

\* the artifact was replaced between two invocations and the later one
\* returned the label of the new artifact
C5_Witness ==
    \E t, u \in Calls :
        /\ t < u
        /\ pc[t] = "returned" /\ prediction[t] = Normal
        /\ pc[u] = "returned" /\ prediction[u] = Covid
        /\ model[t].net = "exact" /\ model[u].net = "soft"

\* C6: whatever the width, height and mode of the decoded image, the tensor
\* given to inference has shape [1, 64, 64, 3], and inference fails on a
\* shape mismatch only when the network was built for another shape.
C6_TensorShape ==
    \A t \in Calls :
        /\ (\/ pc[t] \in {"predict", "decode", "returned"}
            \/ exc[t] \in {"ShapeMismatch", "IndexError", "ValueError"})
           => /\ img[t].kind = "ndarray"
              /\ img[t].shape = <<1, 64, 64, 3>>
        /\ exc[t] = "ShapeMismatch" => model[t].inShape # <<64, 64, 3>>

\* images of 128x128 and of 30x30 both went through inference and a label
\* was returned for each
C6_Witness ==
    \E t, u \in Calls :
        /\ pc[t] = "returned" /\ pc[u] = "returned"
        /\ opened[t][2].held.width = 128 /\ opened[t][2].held.height = 128
        /\ opened[u][2].held.width = 30 /\ opened[u][2].held.height = 30

\* C7: under every interleaving, an invocation ends as it would have ended
\* running alone, and the tensor it used was made from the image it read
\* itself.
C7_AsIfAlone ==
    \A t \in Calls :
        /\ Finished(t) =>
               LET a == RunAlone(image_path[t].s) IN
               /\ exc[t] = a.exc
               /\ a.exc = "none" => pc[t] = "returned" /\ prediction[t] = Str(a.val)
               /\ a.exc # "none" => pc[t] = "raised" /\ prediction[t] = None
        /\ img[t].kind = "ndarray" =>
               /\ opened[t][2].path = image_path[t].s
               /\ img[t].data = opened[t][2].held.pix

\* an invocation that started later, on the other image, returned with the
\* other label while an earlier one was between inference and decoding
C7_Witness ==
    \E t, u \in Calls :
        /\ t < u
        /\ pc[t] = "decode"
        /\ pc[u] = "returned"
        /\ image_path[t] # image_path[u]
        /\ RunAlone(image_path[t].s).exc = "none"
        /\ prediction[u] # Str(RunAlone(image_path[t].s).val)

C10_ModelBeforeImage ==
    \A t \in Calls :
        /\ Len(opened[t]) <= 2
        /\ Len(opened[t]) >= 1 =>
               opened[t][1].by = "load_model" /\ opened[t][1].path = "model.h5"
        /\ Len(opened[t]) = 2 =>
               /\ opened[t][2].by = "load_img"
               /\ opened[t][2].path = image_path[t].s
               /\ model[t].kind = "Model"
        /\ (Finished(t) /\ fs["model.h5"].kind = "absent") =>
               /\ exc[t] = "ModelFileNotFound"
               /\ Len(opened[t]) = 1
               /\ img[t] = None
        /\ exc[t] \in {"FileNotFoundError", "UnidentifiedImageError"} =>
               model[t].kind = "Model"
        /\ img[t] # None => model[t] # None
        /\ result[t] # None => img[t].kind = "ndarray" /\ Len(img[t].shape) = 4
        /\ prediction[t] # None => result[t] # None

\* the artifact and the image are both missing: the invocation failed with
\* the load error, having opened the artifact only
C10_Witness ==
    \E t \in Calls :
        /\ pc[t] = "raised"
        /\ exc[t] = "ModelFileNotFound"
        /\ fs["model.h5"].kind = "absent"
        /\ fs[image_path[t].s].kind = "absent"
        /\ Len(opened[t]) = 1

====
